---- MODULE Spec2Model ----
(***************************************************************************)
(* A model of the chart scripts of homeserver-spec-versions: index.js,     *)
(* timeline.js and the two older/other page scripts kept as part_000 (the  *)
(* family tree + activity page) and part_002 (the first version of the     *)
(* spec-version page).                                                     *)
(*                                                                         *)
(* JavaScript values are modelled by what the language does with them:     *)
(*   - strings are sequences of one-character strings, so that a[0],       *)
(*     a.length, split(".") and Number(...) are computed, not assumed;     *)
(*   - a value that may be a number, NaN, undefined or a character is a    *)
(*     tagged record (Num, NaN, Undefined, Chr);                           *)
(*   - an object used as a mapping is a sequence of entries in insertion   *)
(*     order, read through ObjectKeys (integer-like keys first);           *)
(*   - Array.prototype.sort is an insertion sort that calls the comparator *)
(*     the way the two families of engines do (see SortIdx).               *)
(***************************************************************************)
EXTENDS Integers, Sequences, FiniteSets, TLC

VARIABLES
    phase,          \* "input": nothing computed yet; "output": the operation ran
    engine,         \* which sort implementation the browser has ("lt" or "gt")
    page,           \* the page script: "index", "timeline", "part_000" or "part_002"
    specArgs,       \* three spec-version strings handed to cmpVersions
    specCmp,        \* specCmp[i][j]: what cmpVersions(specArgs[i], specArgs[j]) returned
    room_versions,  \* the keys of data.room_versions in insertion order
    roomCmp,        \* roomCmp[i][j]: cmpRoomVersions over Object.keys(room_versions)
    roomVersions,   \* renderData's roomVersions: the sorted room-version axis
    tz,             \* the browser's time zone: 0 for UTC, 1 for any other zone
    homeserver_versions,    \* data.homeserver_versions of data.json, in key order
    allowedMaturities,      \* the maturities whose checkbox is checked
    status,         \* how the fetch callback ended: "ok", or the exception
    projectsByFamily,       \* the names of renderData's projectsByFamily, in row order
    history,        \* the datasets of the homeserver-history chart
    activity,       \* the Total and Active series of the homeserver-activity chart
    spec_versions,  \* data.spec_versions: its versions in key order, each with its lag
    displayType,    \* the value of the display-type select
    now,            \* the Date that renderData's new Date() gives
    barChart,       \* the data of the days-to-support chart
    scatterChart,   \* the data of the spec-days-vs-support chart
    timeline,       \* the datasets of a supported-versions-over-time chart
    inflight,       \* the fetches of render() whose response has not arrived
    requests,       \* how many times render() was called
    shown           \* the render() call, and its control values, the charts show

versionVars == <<specArgs, specCmp, room_versions, roomCmp, roomVersions>>
inputVars == <<engine, page, tz, homeserver_versions, allowedMaturities>>
chartVars == <<status, projectsByFamily, history, activity>>
lagVars == <<spec_versions, displayType, barChart, scatterChart>>
timelineVars == <<now, timeline>>
fetchVars == <<inflight, requests, shown>>
vars == <<phase, versionVars, inputVars, chartVars, lagVars, timelineVars, fetchVars>>

-----------------------------------------------------------------------------
(* Bounds of the model. *)

\* Longest spec version, in components ("1.10" has 2).
MaxComps == 2
\* The values a component of a modelled spec version takes.
CompValues == {1, 9, 10}
\* The prefixes of a modelled spec version: none ("1.10") or the "v" of "v1.10".
Prefixes == {<<>>, <<"v">>}
\* Most keys in a modelled data.room_versions.
MaxRoomVersions == 3
\* The room-version identifiers of the model: "1", "9", "10", and two
\* non-numeric ones.
RoomIds == {<<"1">>, <<"9">>, <<"1", "0">>, <<"m">>, <<"r">>}
Engines == {"lt", "gt"}
\* The data of a chart that was built (data: null) and never updated.
NoSeries == [total |-> <<>>, active |-> <<>>]
\* The data of a bar or scatter chart before its first update.
NoChart == [labels |-> <<>>, datasets |-> <<>>]
\* The three options of the display-type select, "after_release" selected.
DisplayTypes == {"all", "after_commit", "after_release"}

-----------------------------------------------------------------------------
(* JavaScript values. *)

Num(n) == [t |-> "number", v |-> n]
Chr(c) == [t |-> "string", c |-> c]
Bool(b) == [t |-> "boolean", b |-> b]
NaN == [t |-> "NaN"]
Undefined == [t |-> "undefined"]
IsNum(x) == x.t = "number"

DigitChars == <<"0", "1", "2", "3", "4", "5", "6", "7", "8", "9">>
IsDigit(c) == \E d \in 1..10 : DigitChars[d] = c
DigitVal(c) == (CHOOSE d \in 1..10 : DigitChars[d] = c) - 1

\* UTF-16 code unit of the characters the model uses; < on strings compares these.
CodeUnit(c) ==
    IF IsDigit(c) THEN 48 + DigitVal(c)
    ELSE IF c = "." THEN 46
    ELSE IF c = "m" THEN 109
    ELSE IF c = "r" THEN 114
    ELSE 118

\* Number.prototype.toString for a non-negative integer.
RECURSIVE ToDecimal(_)
ToDecimal(n) ==
    IF n < 10 THEN <<DigitChars[n + 1]>>
    ELSE ToDecimal(n \div 10) \o <<DigitChars[(n % 10) + 1]>>

RECURSIVE DecimalValue(_)
DecimalValue(s) ==
    IF s = <<>> THEN 0
    ELSE 10 * DecimalValue(SubSeq(s, 1, Len(s) - 1)) + DigitVal(s[Len(s)])

\* Number(s) for a string: "" is 0, a run of digits is its value, anything else NaN.
Number(s) ==
    IF \A i \in 1..Len(s) : IsDigit(s[i]) THEN Num(DecimalValue(s)) ELSE NaN

\* s.split(sep)
RECURSIVE SplitFrom(_, _, _)
SplitFrom(s, sep, cur) ==
    IF s = <<>> THEN <<cur>>
    ELSE IF Head(s) = sep THEN <<cur>> \o SplitFrom(Tail(s), sep, <<>>)
    ELSE SplitFrom(Tail(s), sep, Append(cur, Head(s)))
Split(s, sep) == SplitFrom(s, sep, <<>>)

\* X[i] of a JavaScript array, i counted from 0: undefined past the end.
At(X, i) == IF i < Len(X) THEN X[i + 1] ELSE Undefined

\* The abstract relational comparison x < y for the value kinds that occur:
\* two characters by code unit, two numbers numerically, and false as soon as
\* NaN or undefined (which converts to NaN) is on either side.
JsLess(x, y) ==
    IF x.t = "string" /\ y.t = "string" THEN CodeUnit(x.c) < CodeUnit(y.c)
    ELSE IF x.t = "number" /\ y.t = "number" THEN x.v < y.v
    ELSE FALSE

\* x - y on numbers: NaN when either side is NaN.
JsMinus(x, y) == IF IsNum(x) /\ IsNum(y) THEN Num(x.v - y.v) ELSE NaN

-----------------------------------------------------------------------------
(* Version ordering. *)

\* The array cmpVersions builds: the first character, then the dot-separated
\* parts converted with Number.
VersionArray(a) ==
    LET parts == Split(a, ".")
    IN  <<IF a = <<>> THEN Undefined ELSE Chr(a[1])>>
            \o [i \in 1..Len(parts) |-> Number(parts[i])]

RECURSIVE cmpVersionsLoop(_, _, _, _)
cmpVersionsLoop(A, B, n, i) ==
    IF i >= n THEN Undefined
    ELSE IF At(B, i) = Undefined THEN Num(-1)
    ELSE IF JsLess(At(A, i), At(B, i)) THEN Num(-1)
    ELSE IF JsLess(At(B, i), At(A, i)) THEN Num(1)
    ELSE cmpVersionsLoop(A, B, n, i + 1)

\* The loop runs to a.length, the length of the string, not of the array.
cmpVersions(a, b) == cmpVersionsLoop(VersionArray(a), VersionArray(b), Len(a), 0)

cmpRoomVersions(a, b) == JsMinus(Number(a), Number(b))

-----------------------------------------------------------------------------
(* Array.prototype.sort and Object.keys. *)

NoThrow(v) == [exc |-> "none", val |-> v]
Throw(e) == [exc |-> e, val |-> Undefined]

\* What sort makes of a comparator's return value: ToNumber (true is 1, false
\* is 0), with NaN (also from undefined) taken as +0.
SortOrder(v) ==
    IF IsNum(v) THEN v.v
    ELSE IF v.t = "boolean" /\ v.b THEN 1
    ELSE 0

\* One insertion: x goes left past sorted[j] while the engine's test says so.
\* ord[x][y] is the completion of comparefn(element x, element y).  An "lt"
\* engine (V8) asks comparefn(x, y) < 0; a "gt" engine (SpiderMonkey) asks
\* comparefn(y, x) > 0.  An exception of the comparator ends the sort.
RECURSIVE SortInsert(_, _, _, _, _)
SortInsert(sorted, x, j, ord, eng) ==
    IF j = 0 THEN NoThrow(<<x>> \o sorted)
    ELSE LET y == sorted[j]
             c == IF eng = "lt" THEN ord[x][y] ELSE ord[y][x]
         IN  IF c.exc # "none" THEN Throw(c.exc)
             ELSE IF (eng = "lt" /\ SortOrder(c.val) < 0)
                        \/ (eng = "gt" /\ SortOrder(c.val) > 0)
                  THEN SortInsert(sorted, x, j - 1, ord, eng)
                  ELSE NoThrow(SubSeq(sorted, 1, j) \o <<x>>
                                   \o SubSeq(sorted, j + 1, Len(sorted)))

RECURSIVE SortFrom(_, _, _, _, _)
SortFrom(sorted, i, n, ord, eng) ==
    IF i > n THEN NoThrow(sorted)
    ELSE LET r == SortInsert(sorted, i, Len(sorted), ord, eng)
         IN  IF r.exc # "none" THEN r ELSE SortFrom(r.val, i + 1, n, ord, eng)

\* The permutation of 1..n that sort produces, or the comparator's exception.
SortIdx(n, ord, eng) == SortFrom(<<>>, 1, n, ord, eng)

\* A canonical array index: "0", or digits without a leading zero.
IsArrayIndex(k) ==
    /\ k # <<>>
    /\ \A i \in 1..Len(k) : IsDigit(k[i])
    /\ (Len(k) > 1 => k[1] # "0")

RECURSIVE SelectKeys(_, _)
SelectKeys(keys, wantIndex) ==
    IF keys = <<>> THEN <<>>
    ELSE IF IsArrayIndex(Head(keys)) = wantIndex
         THEN <<Head(keys)>> \o SelectKeys(Tail(keys), wantIndex)
         ELSE SelectKeys(Tail(keys), wantIndex)

RECURSIVE AscendingIndexKeys(_)
AscendingIndexKeys(keys) ==
    IF keys = <<>> THEN <<>>
    ELSE LET m == CHOOSE i \in 1..Len(keys) :
                      \A j \in 1..Len(keys) :
                          DecimalValue(keys[i]) <= DecimalValue(keys[j])
         IN  <<keys[m]>> \o AscendingIndexKeys(
                 SubSeq(keys, 1, m - 1) \o SubSeq(keys, m + 1, Len(keys)))

\* Object.keys of a mapping whose keys were inserted in the order `keys`:
\* integer-like keys in ascending numeric order, then the others as inserted.
ObjectKeys(keys) ==
    AscendingIndexKeys(SelectKeys(keys, TRUE)) \o SelectKeys(keys, FALSE)

-----------------------------------------------------------------------------
(* The version axes of renderData. *)

\* The completion of cmpRoomVersions on every pair of keys.
RoomCmpTable(keys) ==
    [i \in 1..Len(keys) |->
        [j \in 1..Len(keys) |-> NoThrow(cmpRoomVersions(keys[i], keys[j]))]]

\* Object.keys(data.room_versions).sort(cmpRoomVersions)
SortedRoomVersions(insertionOrder, eng) ==
    LET keys == ObjectKeys(insertionOrder)
        perm == SortIdx(Len(keys), RoomCmpTable(keys), eng).val
    IN  [i \in 1..Len(keys) |-> keys[perm[i]]]

\* A spec-version string of the model: prefix, then the components joined by ".".
RECURSIVE JoinComps(_)
JoinComps(comps) ==
    IF Len(comps) = 1 THEN ToDecimal(comps[1])
    ELSE ToDecimal(comps[1]) \o <<".">> \o JoinComps(Tail(comps))
VersionString(prefix, comps) == prefix \o JoinComps(comps)

CompVectors == UNION {[1..n -> CompValues] : n \in 1..MaxComps}
VersionStrings == {VersionString(p, c) : p \in Prefixes, c \in CompVectors}

\* Sequences of distinct room-version identifiers, at most MaxRoomVersions long.
RoomKeySeqs ==
    {s \in UNION {[1..n -> RoomIds] : n \in 1..MaxRoomVersions} :
        \A i, j \in 1..Len(s) : i # j => s[i] # s[j]}

\* No lag data, no version timeline and no fetch: the parts of the page that a
\* specification does not exercise.
NoLag ==
    /\ spec_versions = <<>>
    /\ displayType = "after_release"
    /\ barChart = NoChart
    /\ scatterChart = NoChart
NoTimeline ==
    /\ now = 0
    /\ timeline = <<>>
NoFetch ==
    /\ inflight = {}
    /\ requests = 0
    /\ shown = [id |-> 0, allowedMaturities |-> {}, displayType |-> "none"]

InitVersions ==
    /\ phase = "input"
    /\ NoLag
    /\ NoTimeline
    /\ NoFetch
    /\ engine \in Engines
    /\ page = "index"
    /\ tz = 0
    /\ homeserver_versions = <<>>
    /\ allowedMaturities = {}
    /\ status = "none"
    /\ projectsByFamily = <<>>
    /\ history = <<>>
    /\ activity = NoSeries
    /\ specCmp = <<>>
    /\ roomCmp = <<>>
    /\ roomVersions = <<>>
    /\ \/ specArgs \in [1..3 -> VersionStrings] /\ room_versions = <<>>
       \/ specArgs = <<>> /\ room_versions \in RoomKeySeqs

\* cmpVersions applied to every pair of the three arguments.
CompareVersions ==
    /\ phase = "input"
    /\ specArgs # <<>>
    /\ specCmp' = [i \in 1..3 |-> [j \in 1..3 |-> cmpVersions(specArgs[i], specArgs[j])]]
    /\ phase' = "output"
    /\ UNCHANGED <<specArgs, room_versions, roomCmp, roomVersions, inputVars, chartVars>>
    /\ UNCHANGED <<lagVars, timelineVars, fetchVars>>

\* renderData's room-version axis, and the comparator's value on every pair.
SortRoomVersions ==
    /\ phase = "input"
    /\ room_versions # <<>>
    /\ roomCmp' = LET keys == ObjectKeys(room_versions)
                  IN  [i \in 1..Len(keys) |-> [j \in 1..Len(keys) |->
                          cmpRoomVersions(keys[i], keys[j])]]
    /\ roomVersions' = SortedRoomVersions(room_versions, engine)
    /\ phase' = "output"
    /\ UNCHANGED <<specArgs, specCmp, room_versions, inputVars, chartVars>>
    /\ UNCHANGED <<lagVars, timelineVars, fetchVars>>

NextVersions == CompareVersions \/ SortRoomVersions

SpecVersions == InitVersions /\ [][NextVersions]_vars

-----------------------------------------------------------------------------
(* Version ordering: the properties checked under SpecVersions. *)

\* The integer components of a version string: the digits of each part.
RECURSIVE DigitsOf(_)
DigitsOf(s) ==
    IF s = <<>> THEN <<>>
    ELSE IF IsDigit(Head(s)) THEN <<Head(s)>> \o DigitsOf(Tail(s))
    ELSE DigitsOf(Tail(s))
Components(a) ==
    LET parts == Split(a, ".")
    IN  [i \in 1..Len(parts) |-> DecimalValue(DigitsOf(parts[i]))]

\* The reference comparison of two component vectors: the first differing
\* component decides; a proper prefix is earlier.
RECURSIVE RefCmp(_, _)
RefCmp(x, y) ==
    IF x = <<>> /\ y = <<>> THEN 0
    ELSE IF x = <<>> THEN -1
    ELSE IF y = <<>> THEN 1
    ELSE IF Head(x) < Head(y) THEN -1
    ELSE IF Head(x) > Head(y) THEN 1
    ELSE RefCmp(Tail(x), Tail(y))

Sign(n) == IF n < 0 THEN -1 ELSE IF n > 0 THEN 1 ELSE 0
Negative(v) == IsNum(v) /\ v.v < 0
Positive(v) == IsNum(v) /\ v.v > 0
ComparatorValues == {Num(-1), Num(0), Num(1)}

VersionsCompared == phase = "output" /\ specArgs # <<>>
RoomsSorted == phase = "output" /\ room_versions # <<>>

\* C1: cmpVersions is a strict total order on the version strings: it returns
\* 0 on equal arguments, values of opposite sign on the two orders of two
\* different arguments, and is transitive.
C1_StrictTotalOrder ==
    VersionsCompared =>
        /\ \A i \in 1..3 : specCmp[i][i] = Num(0)
        /\ \A i, j \in 1..3 :
               specArgs[i] # specArgs[j] =>
                   \/ Negative(specCmp[i][j]) /\ Positive(specCmp[j][i])
                   \/ Positive(specCmp[i][j]) /\ Negative(specCmp[j][i])
        /\ \A i, j, k \in 1..3 :
               Negative(specCmp[i][j]) /\ Negative(specCmp[j][k])
                   => Negative(specCmp[i][k])

\* C2: cmpVersions(a, b), read the way sort reads it, has the sign of the
\* reference comparison of the two integer component vectors.
C2_AgreesWithReference ==
    VersionsCompared =>
        \A i, j \in 1..3 :
            Sign(SortOrder(specCmp[i][j]))
                = RefCmp(Components(specArgs[i]), Components(specArgs[j]))

\* C3: cmpVersions and cmpRoomVersions return one of -1, 0, 1 on every pair.
C3_ThreeValued ==
    /\ VersionsCompared =>
           \A i, j \in 1..3 : specCmp[i][j] \in ComparatorValues
    /\ RoomsSorted =>
           \A i, j \in 1..Len(roomCmp) : roomCmp[i][j] \in ComparatorValues

SameKeys(s, t) == {s[i] : i \in 1..Len(s)} = {t[i] : i \in 1..Len(t)}

\* C4: the sorted room-version axis has its numeric identifiers in ascending
\* integer order, cmpRoomVersions is a total order on the identifiers of the
\* mapping, and the axis is the same for every insertion order of the same keys.
C4_RoomAxis ==
    RoomsSorted =>
        /\ \A i, j \in 1..Len(roomVersions) :
               (i < j /\ IsNum(Number(roomVersions[i])) /\ IsNum(Number(roomVersions[j])))
                   => Number(roomVersions[i]).v < Number(roomVersions[j]).v
        /\ \A i, j \in 1..Len(roomCmp) :
               /\ i = j => roomCmp[i][j] = Num(0)
               /\ i # j => \/ Negative(roomCmp[i][j]) /\ Positive(roomCmp[j][i])
                           \/ Positive(roomCmp[i][j]) /\ Negative(roomCmp[j][i])
        /\ \A other \in RoomKeySeqs :
               SameKeys(other, room_versions)
                   => SortedRoomVersions(other, engine) = roomVersions

-----------------------------------------------------------------------------
(* data.json and the maturity filter of render(). *)

\* Most projects in a modelled data.homeserver_versions.
MaxProjects == 3
\* The project names of the model; none is integer-like, so Object.entries
\* and Object.values give the projects in insertion order.
Names == {"a", "b", "c"}
\* The maturities that occur in the modelled data (two of the five of render()).
Maturities == {"stable", "beta"}
\* The family-tree inputs take their initial_commit_date from days 1..MaxDay.
MaxDay == 2
\* The activity inputs take their dates from these days: three early ones and
\* two that lie 60 and 61 days after the third.
SweepDays == {1, 2, 3, 63, 64}
\* Date arithmetic is in ticks of half a day.
TicksPerDay == 2
\* The trailing window of the activity sweep: last_run.getDate() - 60.
CutoffDays == 60

HasProject(hv, n) == \E i \in 1..Len(hv) : hv[i].name = n
\* data.homeserver_versions[n] for a name that is present.
GetProject(hv, n) == hv[CHOOSE i \in 1..Len(hv) : hv[i].name = n]

\* Object.fromEntries(Object.entries(...).filter(... allowedMaturities.includes ...))
FilterByMaturity(hv, allowed) == SelectSeq(hv, LAMBDA p : p.maturity \in allowed)

\* new Date(s) for a date-only ISO string (UTC midnight of that day); a missing
\* field gives an Invalid Date, whose time value is NaN.
NewDate(d) == IF IsNum(d) THEN Num(d.v * TicksPerDay) ELSE NaN

-----------------------------------------------------------------------------
(* The family tree of renderData. *)

\* The while loop of part_000 that follows forked_from to the origin project.
\* A parent that is missing makes the next loop test read a property of
\* undefined (TypeError); a name met a second time means the loop's state
\* repeats, so the loop never ends ("Hang").
RECURSIVE RootWalk(_, _, _, _)
RootWalk(hv, parent, family, seen) ==
    IF parent.forked_from = "" THEN NoThrow([family |-> family, parent |-> parent])
    ELSE LET f == parent.forked_from
         IN  IF ~HasProject(hv, f) THEN Throw("TypeError")
             ELSE IF f \in seen THEN Throw("Hang")
             ELSE RootWalk(hv, GetProject(hv, f), f, seen \cup {f})

DateDiff(x, y) == JsMinus(NewDate(Num(x)), NewDate(Num(y)))

\* The comparator of part_000: origin projects' dates across families.
FamilyCmpRoot(hv, a, b) ==
    LET wa == RootWalk(hv, a, a.name, {a.name})
        wb == RootWalk(hv, b, b.name, {b.name})
    IN  IF wa.exc # "none" THEN Throw(wa.exc)
        ELSE IF wb.exc # "none" THEN Throw(wb.exc)
        ELSE IF wa.val.family # wb.val.family
             THEN NoThrow(DateDiff(wa.val.parent.initial_commit_date,
                                   wb.val.parent.initial_commit_date))
             ELSE NoThrow(DateDiff(a.initial_commit_date, b.initial_commit_date))

\* The comparator of index.js (and timeline.js): the direct parent's date.
FamilyCmpParent(hv, a, b) ==
    LET a_family == IF a.forked_from # "" THEN a.forked_from ELSE a.name
        b_family == IF b.forked_from # "" THEN b.forked_from ELSE b.name
    IN  IF a_family # b_family
        THEN IF a.forked_from # "" /\ ~HasProject(hv, a.forked_from)
             THEN Throw("TypeError")
             ELSE IF b.forked_from # "" /\ ~HasProject(hv, b.forked_from)
             THEN Throw("TypeError")
             ELSE NoThrow(DateDiff(
                     IF a.forked_from # ""
                         THEN GetProject(hv, a.forked_from).initial_commit_date
                         ELSE a.initial_commit_date,
                     IF b.forked_from # ""
                         THEN GetProject(hv, b.forked_from).initial_commit_date
                         ELSE b.initial_commit_date))
        ELSE NoThrow(DateDiff(a.initial_commit_date, b.initial_commit_date))

FamilyCmp(hv, a, b, pg) ==
    IF pg = "part_000" THEN FamilyCmpRoot(hv, a, b) ELSE FamilyCmpParent(hv, a, b)

\* Object.entries(data.homeserver_versions).sort(...): the projects in row order.
SortByFamily(hv, pg, eng) ==
    LET n == Len(hv)
        ord == [i \in 1..n |-> [j \in 1..n |-> FamilyCmp(hv, hv[i], hv[j], pg)]]
        r == SortIdx(n, ord, eng)
    IN  IF r.exc # "none" THEN Throw(r.exc)
        ELSE NoThrow([i \in 1..n |-> hv[r.val[i]]])

\* projectsByFamily.findIndex(([p, pInfo]) => p === name), counted from 0.
FindIndex(rows, name) ==
    IF \E i \in 1..Len(rows) : rows[i].name = name
    THEN (CHOOSE i \in 1..Len(rows) :
              /\ rows[i].name = name
              /\ \A j \in 1..(i - 1) : rows[j].name # name) - 1
    ELSE -1

\* homeserverHistoryDataset: per row the two points of the project's own row,
\* with the fork point put in front (unshift) for a forked project.  The own
\* row's y is the for-in key idx (the string of the index), the fork point's y
\* the number findIndex returns; both are kept as the index they denote.
HistoryDataset(rows) ==
    [idx \in 1..Len(rows) |->
        LET p == rows[idx]
            own == <<[x |-> Num(p.initial_commit_date), y |-> idx - 1],
                     [x |-> p.last_commit_date, y |-> idx - 1]>>
        IN  [label |-> p.name,
             data |-> IF p.forked_from # ""
                      THEN <<[x |-> p.forked_date,
                              y |-> FindIndex(rows, p.forked_from)]>> \o own
                      ELSE own]]

-----------------------------------------------------------------------------
(* The activity sweep of part_000. *)

\* An event list the code does not build, to compare SweepEvents with: each
\* project's end event put before its start event.
SweepEventsEndFirst(hv) ==
    [k \in 1..(2 * Len(hv)) |->
        IF k % 2 = 1
        THEN [date |-> NewDate(hv[(k + 1) \div 2].last_commit_date), delta |-> -1]
        ELSE [date |-> NewDate(Num(hv[k \div 2].initial_commit_date)), delta |-> 1]]

\* [[new Date(initial_commit_date), 1], [new Date(last_commit_date), -1]] per
\* project, flattened.
SweepEvents(hv) ==
    [k \in 1..(2 * Len(hv)) |->
        IF k % 2 = 1
        THEN [date |-> NewDate(Num(hv[(k + 1) \div 2].initial_commit_date)), delta |-> 1]
        ELSE [date |-> NewDate(hv[k \div 2].last_commit_date), delta |-> -1]]

\* The comparator (a, b) => a[0] > b[0]: a boolean.
DateAfter(a, b) == Bool(JsLess(b.date, a.date))

\* setHours(0, 0, 0, 0): the local midnight at or before the instant.  Local
\* midnights are the ticks congruent to tz modulo TicksPerDay.
SetHoursZero(d, z) ==
    IF IsNum(d) THEN Num(d.v - ((d.v - z) % TicksPerDay)) ELSE NaN

\* setDate(getDate() - days)
SetDateBack(d, days) == IF IsNum(d) THEN Num(d.v - days * TicksPerDay) ELSE NaN

RECURSIVE TotalFrom(_, _)
TotalFrom(dates, total_count) ==
    IF dates = <<>> THEN <<>>
    ELSE IF Head(dates).delta > 0
         THEN <<[x |-> Head(dates).date, y |-> total_count + 1]>>
                  \o TotalFrom(Tail(dates), total_count + 1)
         ELSE TotalFrom(Tail(dates), total_count)

RECURSIVE ActiveFrom(_, _)
ActiveFrom(dates, active_count) ==
    IF dates = <<>> THEN <<>>
    ELSE <<[x |-> Head(dates).date, y |-> active_count + Head(dates).delta]>>
             \o ActiveFrom(Tail(dates), active_count + Head(dates).delta)

\* The events as sorted by the engine.
SortedEvents(hv, eng) ==
    LET ev == SweepEvents(hv)
        n == Len(ev)
        ord == [i \in 1..n |-> [j \in 1..n |-> NoThrow(DateAfter(ev[i], ev[j]))]]
        perm == SortIdx(n, ord, eng).val
    IN  [i \in 1..n |-> ev[perm[i]]]

\* last_run is the Date object of the last event, not a copy: setHours and
\* setDate change that event's date too.
LastRun(dates, z) == SetDateBack(SetHoursZero(dates[Len(dates)].date, z), CutoffDays)

\* dates.filter(a => a[0] < last_run || a[1] > 0), after last_run was moved.
FilteredEvents(dates, z) ==
    LET last_run == LastRun(dates, z)
        moved == [dates EXCEPT ![Len(dates)].date = last_run]
    IN  SelectSeq(moved, LAMBDA a : JsLess(a.date, last_run) \/ a.delta > 0)

\* The sweep: dates[dates.length - 1][0] throws on an empty list.
ActivitySweep(hv, eng, z) ==
    LET dates == SortedEvents(hv, eng)
    IN  IF dates = <<>> THEN Throw("TypeError")
        ELSE LET kept == FilteredEvents(dates, z)
             IN  NoThrow([total |-> TotalFrom(kept, 0), active |-> ActiveFrom(kept, 0)])

-----------------------------------------------------------------------------
(* render(): the fetch callback filters the projects and calls renderData. *)

Filtered == FilterByMaturity(homeserver_versions, allowedMaturities)

Render ==
    /\ phase = "input"
    /\ phase' = "output"
    /\ LET fam == SortByFamily(Filtered, page, engine)
           sweep == ActivitySweep(Filtered, engine, tz)
       IN  IF fam.exc # "none"
           THEN /\ status' = fam.exc
                /\ UNCHANGED <<projectsByFamily, history, activity>>
           ELSE /\ projectsByFamily' = [i \in 1..Len(fam.val) |-> fam.val[i].name]
                /\ history' = HistoryDataset(fam.val)
                /\ IF page # "part_000"
                   THEN status' = "ok" /\ UNCHANGED activity
                   ELSE IF sweep.exc # "none"
                   THEN status' = sweep.exc /\ UNCHANGED activity
                   ELSE status' = "ok" /\ activity' = sweep.val
    /\ UNCHANGED <<versionVars, inputVars, lagVars, timelineVars, fetchVars>>

\* Sequences of distinct names, at most MaxProjects long.
NameSeqs ==
    {s \in UNION {[1..n -> Names] : n \in 1..MaxProjects} :
        \A i, j \in 1..Len(s) : i # j => s[i] # s[j]}

\* The project mappings of the family-tree inputs: any maturity, start day and
\* forked_from (absent, present, missing, cyclic); the fork is dated the day
\* after the project's start and the last commit two days after it.
FamilyProject(name, maturity, day, from) ==
    [name |-> name, maturity |-> maturity, initial_commit_date |-> day,
     last_commit_date |-> Num(day + 2), forked_from |-> from,
     forked_date |-> IF from = "" THEN Undefined ELSE Num(day + 1)]
NoVersions ==
    /\ specArgs = <<>>
    /\ specCmp = <<>>
    /\ room_versions = <<>>
    /\ roomCmp = <<>>
    /\ roomVersions = <<>>

NoCharts ==
    /\ status = "none"
    /\ projectsByFamily = <<>>
    /\ history = <<>>
    /\ activity = NoSeries

InitFamily ==
    /\ phase = "input"
    /\ NoVersions
    /\ NoCharts
    /\ NoLag
    /\ NoTimeline
    /\ NoFetch
    /\ engine \in Engines
    /\ page \in {"index", "part_000"}
    /\ tz = 0
    /\ allowedMaturities \in {Maturities, {"stable"}}
    /\ \E ns \in NameSeqs :
           \E m \in [1..Len(ns) -> Maturities],
              d \in [1..Len(ns) -> 1..MaxDay],
              f \in [1..Len(ns) -> Names \cup {""}] :
               homeserver_versions =
                   [i \in 1..Len(ns) |-> FamilyProject(ns[i], m[i], d[i], f[i])]

SpecFamily == InitFamily /\ [][Render]_vars

\* The project mappings of the activity inputs: unrelated stable projects with
\* initial_commit_date <= last_commit_date, or no last_commit_date at all;
\* and, since renderData reads the two fields without comparing them, two
\* spans whose last_commit_date lies before the initial_commit_date.
SweepProject(name, first, last) ==
    [name |-> name, maturity |-> "stable", initial_commit_date |-> first,
     last_commit_date |-> last, forked_from |-> "", forked_date |-> Undefined]
ReversedSpans == {<<2, Num(1)>>, <<64, Num(1)>>}
SweepSpans ==
    {sp \in SweepDays \X ({Num(d) : d \in SweepDays} \cup {Undefined}) :
        IsNum(sp[2]) => sp[1] <= sp[2].v}
        \cup ReversedSpans
SweepNames == <<"a", "b", "c", "d", "e">>

InitSweep ==
    /\ phase = "input"
    /\ NoVersions
    /\ NoCharts
    /\ NoLag
    /\ NoTimeline
    /\ NoFetch
    /\ engine \in Engines
    /\ page = "part_000"
    /\ tz \in {0, 1}
    /\ allowedMaturities = Maturities
    /\ \E n \in 0..MaxProjects :
           \E sp \in [1..n -> SweepSpans] :
               homeserver_versions =
                   [i \in 1..n |-> SweepProject(SweepNames[i], sp[i][1], sp[i][2])]

SpecSweep == InitSweep /\ [][Render]_vars

\* The activity inputs for the sign of the active count: the same projects
\* over fewer spans (equal dates, ends before and inside the trailing window,
\* no end at all, and ends that lie before the start), in every key order.
ActiveSpans ==
    {<<1, Num(1)>>, <<1, Num(63)>>, <<2, Num(2)>>, <<3, Num(64)>>,
     <<64, Num(64)>>, <<2, Undefined>>, <<2, Num(1)>>, <<64, Num(1)>>}

InitActive ==
    /\ phase = "input"
    /\ NoVersions
    /\ NoCharts
    /\ NoLag
    /\ NoTimeline
    /\ NoFetch
    /\ engine \in Engines
    /\ page = "part_000"
    /\ tz \in {0, 1}
    /\ allowedMaturities = Maturities
    /\ \E n \in 0..MaxProjects :
           \E sp \in [1..n -> ActiveSpans] :
               homeserver_versions =
                   [i \in 1..n |-> SweepProject(SweepNames[i], sp[i][1], sp[i][2])]

SpecActive == InitActive /\ [][Render]_vars

-----------------------------------------------------------------------------
(* The family tree: the properties checked under SpecFamily. *)

Rendered == phase = "output"

\* Every forked_from chain of the mapping ends at a project without forked_from:
\* all references are present and there is no cycle.
IsForest(hv) ==
    \A i \in 1..Len(hv) : RootWalk(hv, hv[i], hv[i].name, {hv[i].name}).exc = "none"
\* The ultimate root ancestor of a project of a forest.
RootOf(hv, p) == RootWalk(hv, p, p.name, {p.name}).val.parent
\* Some project names a parent that is not in the mapping.
HasDangling(hv) ==
    \E i \in 1..Len(hv) : hv[i].forked_from # "" /\ ~HasProject(hv, hv[i].forked_from)
\* Following forked_from from some project comes back to a project already met.
HasCycle(hv) ==
    \E i \in 1..Len(hv) : RootWalk(hv, hv[i], hv[i].name, {hv[i].name}).exc = "Hang"

\* The row (from 0) of a name in the rendered order.
RowOf(name) == (CHOOSE i \in 1..Len(projectsByFamily) : projectsByFamily[i] = name) - 1
RootOfRow(i) == RootOf(Filtered, GetProject(Filtered, projectsByFamily[i])).name

\* "a" < "b" < "c" as strings.
NameCode(n) == IF n = "a" THEN 97 ELSE IF n = "b" THEN 98 ELSE 99

\* C5: for a forest, every forked project is on a later row than its ultimate
\* root ancestor and the rows of one lineage are contiguous.
C5_RootFirstContiguous ==
    (Rendered /\ IsForest(Filtered)) =>
        /\ Len(projectsByFamily) = Len(Filtered)
        /\ \A i \in 1..Len(Filtered) :
               Filtered[i].forked_from # ""
                   => RowOf(Filtered[i].name) > RowOf(RootOf(Filtered, Filtered[i]).name)
        /\ \A i, j, k \in 1..Len(projectsByFamily) :
               (i < j /\ j < k /\ RootOfRow(i) = RootOfRow(k))
                   => RootOfRow(j) = RootOfRow(i)

\* The key (root's initial_commit_date, own initial_commit_date, name) of p is
\* strictly before that of q.
KeyBefore(p, q) ==
    LET rp == RootOf(Filtered, p).initial_commit_date
        rq == RootOf(Filtered, q).initial_commit_date
    IN  \/ rp < rq
        \/ rp = rq /\ p.initial_commit_date < q.initial_commit_date
        \/ /\ rp = rq
           /\ p.initial_commit_date = q.initial_commit_date
           /\ NameCode(p.name) < NameCode(q.name)

\* C6: the rows are in ascending order of the key (root's initial_commit_date,
\* own initial_commit_date, name), whatever the key order of the input mapping.
C6_RowsAscendingByKey ==
    (Rendered /\ IsForest(Filtered)) =>
        /\ Len(projectsByFamily) = Len(Filtered)
        /\ \A i, j \in 1..Len(projectsByFamily) :
               i < j => KeyBefore(GetProject(Filtered, projectsByFamily[i]),
                                  GetProject(Filtered, projectsByFamily[j]))

\* C7: the series of a forked project starts with the point (forked_date, r),
\* r the row of the project named by forked_from, followed by the two points of
\* the project's own row.
C7_ForkPointOnParentRow ==
    Rendered =>
        \A idx \in 1..Len(history) :
            LET p == GetProject(Filtered, history[idx].label)
                d == history[idx].data
            IN  p.forked_from # "" =>
                    /\ Len(d) = 3
                    /\ d[1].x = p.forked_date
                    /\ d[1].y \in 0..(Len(projectsByFamily) - 1)
                    /\ projectsByFamily[d[1].y + 1] = p.forked_from
                    /\ d[2] = [x |-> Num(p.initial_commit_date), y |-> idx - 1]
                    /\ d[3] = [x |-> p.last_commit_date, y |-> idx - 1]

\* C8: a forked_from that names a project missing from the filtered mapping
\* is signalled as a ReferenceError, and no chart is drawn from it.
C8_DanglingIsReferenceError ==
    (Rendered /\ HasDangling(Filtered)) =>
        /\ status = "ReferenceError"
        /\ history = <<>>

\* C9: a cycle in forked_from ends the family sort with a ConfigurationError.
C9_CycleIsConfigurationError ==
    (Rendered /\ page = "part_000" /\ HasCycle(Filtered)) =>
        status = "ConfigurationError"

-----------------------------------------------------------------------------
(* The activity sweep: the properties checked under SpecSweep. *)

\* The number of projects whose initial_commit_date is at or before instant x.
StartedBy(x) ==
    Cardinality({i \in 1..Len(Filtered) :
                    ~JsLess(x, NewDate(Num(Filtered[i].initial_commit_date)))})

\* C10: the Total series never decreases, and every point of the Active series
\* is at most the number of projects started up to the point's date.
C10_TotalMonotoneActiveBounded ==
    (Rendered /\ status = "ok") =>
        /\ \A i, j \in 1..Len(activity.total) :
               i < j => activity.total[i].y <= activity.total[j].y
        /\ \A k \in 1..Len(activity.active) :
               activity.active[k].y <= StartedBy(activity.active[k].x)

\* The instant of a calendar day, as new Date gives it for the day's string.
DayInstant(d) == NewDate(Num(d))

\* The days that carry an event: every start and every end that has a date.
EventDays ==
    {Filtered[i].initial_commit_date : i \in 1..Len(Filtered)}
        \cup {Filtered[i].last_commit_date.v :
                 i \in {j \in 1..Len(Filtered) : IsNum(Filtered[j].last_commit_date)}}
LastObservedDay == CHOOSE d \in EventDays : \A e \in EventDays : e <= d
\* The day 60 days before the latest date of any event.
CutoffDay == LastObservedDay - CutoffDays

\* The project's end is not to be counted: it has none, or it is at or after
\* the cutoff.
OpenEnded(p) == ~IsNum(p.last_commit_date) \/ p.last_commit_date.v >= CutoffDay

\* The number of projects active at day d, the last day of a closed project
\* counted (Inclusive) or not (Exclusive).
ActiveInclusive(d) ==
    Cardinality({i \in 1..Len(Filtered) :
                    /\ Filtered[i].initial_commit_date <= d
                    /\ OpenEnded(Filtered[i]) \/ d <= Filtered[i].last_commit_date.v})
ActiveExclusive(d) ==
    Cardinality({i \in 1..Len(Filtered) :
                    /\ Filtered[i].initial_commit_date <= d
                    /\ OpenEnded(Filtered[i]) \/ d < Filtered[i].last_commit_date.v})

\* The last point of a series that carries the date x.
LastAt(series, x) ==
    series[CHOOSE k \in 1..Len(series) :
               /\ series[k].x = x
               /\ \A m \in (k + 1)..Len(series) : series[m].x # x]

\* The dates of a series are instants of whole days.
WholeDays(series) ==
    \A k \in 1..Len(series) :
        IsNum(series[k].x) /\ series[k].x.v % TicksPerDay = 0
DayOf(x) == x.v \div TicksPerDay

\* C11: at every date t of the output the last Total value at t is the number
\* of projects started at or before t, and the last Active value at t is the
\* number of projects started at or before t and not ended by t (a project
\* that ends on t itself may be counted either way), a project without end or
\* with a suppressed end being active from its start on.
C11_CountsMatchDefinition ==
    (Rendered /\ status = "ok") =>
        /\ WholeDays(activity.total)
        /\ WholeDays(activity.active)
        /\ \A k \in 1..Len(activity.total) :
               LastAt(activity.total, activity.total[k].x).y
                   = StartedBy(activity.total[k].x)
        /\ \A k \in 1..Len(activity.active) :
               LastAt(activity.active, activity.active[k].x).y
                   \in {ActiveInclusive(DayOf(activity.active[k].x)),
                        ActiveExclusive(DayOf(activity.active[k].x))}

\* The points of the Active series that come from an end event: the count goes
\* down at them.
EndPoints ==
    {k \in 1..Len(activity.active) :
        activity.active[k].y < (IF k = 1 THEN 0 ELSE activity.active[k - 1].y)}
\* The projects whose end event is to be kept: it has a date before the cutoff.
ClosedProjects == {i \in 1..Len(Filtered) : ~OpenEnded(Filtered[i])}

\* C12: with cutoff = (latest date of any event) minus 60 days, the end events
\* left in the sweep are exactly those dated before the cutoff, and every start
\* event is left in it, whatever the key order of the input mapping.
C12_EndsRemovedFromCutoffOn ==
    (Rendered /\ status = "ok") =>
        /\ Len(activity.total) = Len(Filtered)
        /\ Cardinality(EndPoints) = Cardinality(ClosedProjects)
        /\ \A d \in EventDays :
               Cardinality({k \in EndPoints : activity.active[k].x = DayInstant(d)})
                   = Cardinality({i \in ClosedProjects :
                                     Filtered[i].last_commit_date = Num(d)})

\* Some project of the mapping has no last_commit_date.
SomeProjectWithoutEnd ==
    \E i \in 1..Len(Filtered) : ~IsNum(Filtered[i].last_commit_date)

\* C13: when some project has no last_commit_date, every project whose
\* last_commit_date precedes the cutoff still makes the Active count go down at
\* that date and no other project does, so Active ends at the number of
\* projects that are not closed; Total ends at the number of projects and
\* never decreases.
C13_ClosedProjectCountedInactive ==
    (Rendered /\ status = "ok" /\ SomeProjectWithoutEnd) =>
        /\ \A i \in ClosedProjects :
               \E k \in EndPoints :
                   activity.active[k].x = NewDate(Filtered[i].last_commit_date)
        /\ Cardinality(EndPoints) = Cardinality(ClosedProjects)
        /\ activity.active[Len(activity.active)].y
               = Len(Filtered) - Cardinality(ClosedProjects)
        /\ activity.total[Len(activity.total)].y = Len(Filtered)
        /\ \A i, j \in 1..Len(activity.total) :
               i < j => activity.total[i].y <= activity.total[j].y

-----------------------------------------------------------------------------
(* The version timelines: the flattening of a project's mapping of version  *)
(* to list of [start, end] intervals.                                       *)

\* Most versions in a modelled project mapping, and most intervals of one.
MaxVersions == 2
MaxIntervals == 2
\* The version keys of the model: two integer-like room versions and one spec
\* version.
VersionKeys == {<<"9">>, <<"1", "0">>, <<"v", "1", ".", "1", "0">>}
\* Most versions in the catalog data.spec_versions, and its spec versions.
MaxCatalog == 2
CatalogKeys == {<<"v", "1", ".", "9">>, <<"v", "1", ".", "1", "0">>}

\* More JavaScript values: null, a date string of data.json (never empty), a
\* Date object, and an array (the [start, end] pair of a timeline bar).
Null == [t |-> "null"]
DateString(d) == [t |-> "date string", day |-> d]
DateObject(ms) == [t |-> "Date", ms |-> ms]
Pair(start, end) == [t |-> "array", start |-> start, end |-> end]

\* ToBoolean
Truthy(x) ==
    IF x.t \in {"undefined", "null", "NaN"} THEN FALSE
    ELSE IF x.t = "number" THEN x.v # 0
    ELSE IF x.t = "boolean" THEN x.b
    ELSE TRUE
\* x || y
JsOr(x, y) == IF Truthy(x) THEN x ELSE y

\* A mapping of data.json is a sequence of [key, val] entries in the order of
\* the file.
MapKeys(m) == [i \in 1..Len(m) |-> m[i].key]
HasKey(m, k) == \E i \in 1..Len(m) : m[i].key = k
\* m[k] for a key that is present.
Get(m, k) == m[CHOOSE i \in 1..Len(m) : m[i].key = k].val

\* The completion of cmpVersions on every pair of keys.
SpecCmpTable(keys) ==
    [i \in 1..Len(keys) |->
        [j \in 1..Len(keys) |-> NoThrow(cmpVersions(keys[i], keys[j]))]]

\* Object.keys(data.spec_versions.version_dates).sort(cmpVersions)
SortedSpecVersions(catalog, eng) ==
    LET keys == ObjectKeys(MapKeys(catalog))
        perm == SortIdx(Len(keys), SpecCmpTable(keys), eng).val
    IN  [i \in 1..Len(keys) |-> keys[perm[i]]]

\* projectVersions[verString].map(verDates =>
\*     ({x: [verDates[0], verDates[1] || now], y: verString}))
VersionTuples(verString, intervals, n) ==
    [i \in 1..Len(intervals) |->
        [x |-> Pair(intervals[i][1], JsOr(intervals[i][2], n)), y |-> verString]]

\* Array.prototype.flat, one level.
RECURSIVE Flat(_)
Flat(arrays) ==
    IF arrays = <<>> THEN <<>> ELSE Head(arrays) \o Flat(Tail(arrays))

\* A flattening the code does not compute, to compare FlattenVersions with:
\* the versions taken from the last key to the first.
FlattenVersionsBackwards(projectVersions, n) ==
    LET keys == ObjectKeys(MapKeys(projectVersions))
    IN  Flat([i \in 1..Len(keys) |->
                 VersionTuples(keys[Len(keys) + 1 - i],
                               Get(projectVersions, keys[Len(keys) + 1 - i]), n)])

\* Object.keys(projectVersions).map(...).flat() of index.js.
FlattenVersions(projectVersions, n) ==
    LET keys == ObjectKeys(MapKeys(projectVersions))
    IN  Flat([i \in 1..Len(keys) |->
                 VersionTuples(keys[i], Get(projectVersions, keys[i]), n)])

\* The datasets of a timeline of index.js: one per project that has versions.
FlatDatasets(hv, n) ==
    LET kept == SelectSeq(hv, LAMBDA p : Len(p.version_dates) > 0)
    IN  NoThrow([i \in 1..Len(kept) |->
                    [label |-> kept[i].name,
                     data |-> FlattenVersions(kept[i].version_dates, n)]])

\* specVersions.map(ver => projectVersions[ver]
\*     ? [projectVersions[ver][0][0], projectVersions[ver][0][1] || now] : null)
\* of part_002.  An empty list is truthy and its [0] is undefined, so reading
\* [0] of that throws.
FirstIntervals(projectVersions, specVersions, n) ==
    IF \E i \in 1..Len(specVersions) :
           /\ HasKey(projectVersions, specVersions[i])
           /\ Get(projectVersions, specVersions[i]) = <<>>
    THEN Throw("TypeError")
    ELSE NoThrow([i \in 1..Len(specVersions) |->
             IF HasKey(projectVersions, specVersions[i])
             THEN LET first == Get(projectVersions, specVersions[i])[1]
                  IN  Pair(first[1], JsOr(first[2], n))
             ELSE Null])

\* The datasets of the timeline of part_002: the projects that have versions
\* and an allowed maturity; the first exception ends the callback.
FirstDatasets(hv, allowed, specVersions, n) ==
    LET kept == SelectSeq(hv, LAMBDA p :
                    Len(p.version_dates) > 0 /\ p.maturity \in allowed)
        rows == [i \in 1..Len(kept) |->
                    FirstIntervals(kept[i].version_dates, specVersions, n)]
    IN  IF \E i \in 1..Len(kept) : rows[i].exc # "none"
        THEN Throw("TypeError")
        ELSE NoThrow([i \in 1..Len(kept) |->
                         [label |-> kept[i].name, data |-> rows[i].val]])

\* The timeline part of the fetch callback: the supported-versions chart gets
\* the sorted versions as labels and the datasets.
RenderTimeline ==
    /\ phase = "input"
    /\ phase' = "output"
    /\ LET specVersions == SortedSpecVersions(spec_versions, engine)
           sets == IF page = "part_002"
                   THEN FirstDatasets(homeserver_versions, allowedMaturities,
                                      specVersions, now)
                   ELSE FlatDatasets(Filtered, now)
       IN  IF sets.exc # "none"
           THEN status' = sets.exc /\ UNCHANGED timeline
           ELSE /\ status' = "ok"
                /\ timeline' = [labels |-> specVersions, datasets |-> sets.val]
    /\ UNCHANGED <<versionVars, inputVars, lagVars, now, fetchVars>>
    /\ UNCHANGED <<projectsByFamily, history, activity>>

\* The catalogs of the model: at most MaxCatalog distinct versions in any key
\* order, the i-th with lag i.
Catalogs ==
    UNION {{[i \in 1..n |-> [key |-> ks[i], lag |-> Num(i)]] :
               ks \in {s \in [1..n -> CatalogKeys] :
                          \A i, j \in 1..n : i # j => s[i] # s[j]}} :
           n \in 0..MaxCatalog}

\* The intervals of the model: a closed one and an open one (end null).
Intervals == {<<DateString(1), DateString(2)>>, <<DateString(3), Null>>}
IntervalLists == UNION {[1..n -> Intervals] : n \in 0..MaxIntervals}
\* Sequences of distinct version keys, at most MaxVersions long.
VersionKeySeqs ==
    {s \in UNION {[1..n -> VersionKeys] : n \in 0..MaxVersions} :
        \A i, j \in 1..Len(s) : i # j => s[i] # s[j]}

\* A project as the timelines read it.  index.js reads the mapping as
\* spec_version_dates, room_version_dates and default_room_version_dates,
\* part_002 as version_dates.
TimelineProject(name, maturity, dates) ==
    [name |-> name, maturity |-> maturity, version_dates |-> dates]

InitTimeline ==
    /\ phase = "input"
    /\ NoVersions
    /\ NoCharts
    /\ NoFetch
    /\ engine \in Engines
    /\ page \in {"index", "part_002"}
    /\ tz = 0
    /\ allowedMaturities = {"stable"}
    /\ displayType = "after_release"
    /\ barChart = NoChart
    /\ scatterChart = NoChart
    /\ timeline = <<>>
    /\ now = DateObject(9)
    /\ spec_versions \in Catalogs
    /\ \E ks \in VersionKeySeqs :
           \E iv \in [1..Len(ks) -> IntervalLists] :
               homeserver_versions =
                   <<TimelineProject("a", "stable",
                        [i \in 1..Len(ks) |-> [key |-> ks[i], val |-> iv[i]]])>>

SpecTimeline == InitTimeline /\ [][RenderTimeline]_vars

-----------------------------------------------------------------------------
(* The version timelines: the properties checked under SpecTimeline. *)

\* The number of intervals over all versions of a mapping.
RECURSIVE TotalIntervals(_)
TotalIntervals(m) ==
    IF m = <<>> THEN 0 ELSE Len(Head(m).val) + TotalIntervals(Tail(m))

\* The end a bar is to have: the interval's own end, or now for an open one.
EndOrNow(interval) == IF interval[2] = Null THEN now ELSE interval[2]

\* The tuples of a dataset.  index.js emits {x: [start, end], y: version};
\* part_002 emits [start, end] at the position of the version among the labels
\* and null at the position of a version without bar.
TupleCount(ds) ==
    IF page = "part_002"
    THEN Cardinality({i \in 1..Len(ds.data) : ds.data[i] # Null})
    ELSE Len(ds.data)
HasTuple(ds, ver, start, end) ==
    \E i \in 1..Len(ds.data) :
        IF page = "part_002"
        THEN ds.data[i] = Pair(start, end) /\ timeline.labels[i] = ver
        ELSE ds.data[i] = [x |-> Pair(start, end), y |-> ver]

\* C14: the series of every displayed project that has versions has as many
\* tuples as the mapping has intervals over all its versions, and for every
\* interval of every version a tuple with that version, the interval's start
\* and the interval's end, or now when the interval has no end.
C14_OneTuplePerInterval ==
    Rendered =>
        /\ status = "ok"
        /\ \A i \in 1..Len(Filtered) :
               LET m == Filtered[i].version_dates
               IN  Len(m) > 0 =>
                       \E d \in 1..Len(timeline.datasets) :
                           LET ds == timeline.datasets[d]
                           IN  /\ ds.label = Filtered[i].name
                               /\ TupleCount(ds) = TotalIntervals(m)
                               /\ \A e \in 1..Len(m) :
                                      \A j \in 1..Len(m[e].val) :
                                          HasTuple(ds, m[e].key, m[e].val[j][1],
                                                   EndOrNow(m[e].val[j]))

-----------------------------------------------------------------------------
(* The lag charts of index.js: days-to-support (bar) and                    *)
(* spec-days-vs-support (scatter).                                          *)

\* Most projects with lag data, and most versions in one lag mapping.
MaxLagProjects == 2
MaxLagKeys == 2
\* The spec versions a project can have a lag for: one that the catalog can
\* hold and one that it never holds.
LagKeys == {<<"v", "1", ".", "1">>, <<"v", "1", ".", "1", "0">>}
\* The lags of the model, in days: support before the release, on the day of
\* the release, and after it.
LagValues == {-17, 0, 5}

\* data.homeserver_versions[project]["lag_" + displayType]
LagOf(p, dt) ==
    IF dt = "all" THEN p.lag_all
    ELSE IF dt = "after_commit" THEN p.lag_after_commit
    ELSE p.lag_after_release

\* projectVersions[v]: undefined for a version that is not a key.
LagEntry(projectVersions, v) ==
    IF HasKey(projectVersions, v) THEN Get(projectVersions, v) ELSE Undefined

\* data.spec_versions.lag[v]
CatalogLag(catalog, v) ==
    IF \E i \in 1..Len(catalog) : catalog[i].key = v
    THEN catalog[CHOOSE i \in 1..Len(catalog) : catalog[i].key = v].lag
    ELSE Undefined

\* Two bar series the code does not compute, to compare BarData with: one
\* that shows a lag below zero as 0, and one without the zeros for the versions
\* the project has no lag for.
BarDataClamped(projectVersions, specVersions) ==
    [i \in 1..Len(specVersions) |->
        LET x == LagEntry(projectVersions, specVersions[i])
        IN  IF IsNum(x) /\ x.v > 0 THEN x ELSE Num(0)]
BarDataWithoutZeros(projectVersions, specVersions) ==
    LET present == SelectSeq(specVersions, LAMBDA v : HasKey(projectVersions, v))
    IN  [i \in 1..Len(present) |-> Get(projectVersions, present[i])]

\* specVersions.map(v => projectVersions[v] || 0)
BarData(projectVersions, specVersions) ==
    [i \in 1..Len(specVersions) |->
        JsOr(LagEntry(projectVersions, specVersions[i]), Num(0))]

\* Object.keys(projectVersions).map(v =>
\*     ({label: v, x: data.spec_versions.lag[v], y: projectVersions[v]}))
ScatterData(projectVersions, catalog) ==
    LET keys == ObjectKeys(MapKeys(projectVersions))
    IN  [i \in 1..Len(keys) |->
            [label |-> keys[i],
             x |-> CatalogLag(catalog, keys[i]),
             y |-> LagEntry(projectVersions, keys[i])]]

\* The projects the loop does not skip: those with a key in the mapping of the
\* selected mode.
WithLag(hv, dt) == SelectSeq(hv, LAMBDA p : Len(LagOf(p, dt)) > 0)

\* barDatasets and scatterDatasets of renderData(data, displayType).
BarDatasets(hv, dt, specVersions) ==
    LET kept == WithLag(hv, dt)
    IN  [i \in 1..Len(kept) |->
            [label |-> kept[i].name,
             data |-> BarData(LagOf(kept[i], dt), specVersions)]]
ScatterDatasets(hv, dt, catalog) ==
    LET kept == WithLag(hv, dt)
    IN  [i \in 1..Len(kept) |->
            [label |-> kept[i].name,
             data |-> ScatterData(LagOf(kept[i], dt), catalog)]]

\* The lag part of renderData(data, displayType).
RenderLag ==
    /\ phase = "input"
    /\ phase' = "output"
    /\ LET specVersions == SortedSpecVersions(spec_versions, engine)
       IN  /\ barChart' =
                  [labels |-> specVersions,
                   datasets |-> BarDatasets(Filtered, displayType, specVersions)]
           /\ scatterChart' =
                  [datasets |-> ScatterDatasets(Filtered, displayType, spec_versions)]
    /\ status' = "ok"
    /\ UNCHANGED <<versionVars, inputVars, spec_versions, displayType>>
    /\ UNCHANGED <<timelineVars, fetchVars, projectsByFamily, history, activity>>

\* The lag mappings of the model: at most MaxLagKeys distinct versions, each
\* with a lag.
LagMappings ==
    UNION {{[i \in 1..n |-> [key |-> ks[i], val |-> Num(vs[i])]] :
               ks \in {s \in [1..n -> LagKeys] :
                          \A i, j \in 1..n : i # j => s[i] # s[j]},
               vs \in [1..n -> LagValues]} : n \in 0..MaxLagKeys}
\* What the modes that are not selected hold: one version with a lag of 99
\* days.
OtherLag == <<[key |-> <<"v", "1", ".", "1", "0">>, val |-> Num(99)]>>
\* A project as the lag charts read it: the mapping of the selected mode is
\* `selected`; the two other modes hold OtherLag.
LagProject(name, dt, selected) ==
    [name |-> name, maturity |-> "stable",
     lag_all |-> IF dt = "all" THEN selected ELSE OtherLag,
     lag_after_commit |-> IF dt = "after_commit" THEN selected ELSE OtherLag,
     lag_after_release |-> IF dt = "after_release" THEN selected ELSE OtherLag]

InitLag ==
    /\ phase = "input"
    /\ NoVersions
    /\ NoCharts
    /\ NoTimeline
    /\ NoFetch
    /\ engine \in Engines
    /\ page = "index"
    /\ tz = 0
    /\ allowedMaturities = Maturities
    /\ displayType \in DisplayTypes
    /\ barChart = NoChart
    /\ scatterChart = NoChart
    /\ spec_versions \in Catalogs
    /\ \E n \in 1..MaxLagProjects :
           \E sel \in [1..n -> LagMappings] :
               homeserver_versions =
                   [i \in 1..n |-> LagProject(SweepNames[i], displayType, sel[i])]

SpecLag == InitLag /\ [][RenderLag]_vars

-----------------------------------------------------------------------------
(* The lag charts: the properties checked under SpecLag. *)

\* The lag mapping of a project under the selected display mode.
SelectedLag(p) == LagOf(p, displayType)
HasDataset(chart, name) ==
    \E d \in 1..Len(chart.datasets) : chart.datasets[d].label = name
DatasetOf(chart, name) ==
    chart.datasets[CHOOSE d \in 1..Len(chart.datasets) :
                       chart.datasets[d].label = name]

\* C15: for every project with lag data under the selected mode, a lag below
\* zero appears unchanged in the bar series (at the position of its version)
\* and in the scatter series, and the scatter series has exactly one point
\* per key of the mapping, none for any other version.
C15_NegativeLagKept ==
    Rendered =>
        \A i \in 1..Len(Filtered) :
            LET m == SelectedLag(Filtered[i])
                name == Filtered[i].name
            IN  Len(m) > 0 =>
                    /\ HasDataset(barChart, name)
                    /\ HasDataset(scatterChart, name)
                    /\ \A e \in 1..Len(m) :
                           m[e].val.v < 0 =>
                               /\ \A k \in 1..Len(barChart.labels) :
                                      barChart.labels[k] = m[e].key
                                          => DatasetOf(barChart, name).data[k] = m[e].val
                               /\ \E q \in 1..Len(DatasetOf(scatterChart, name).data) :
                                      LET pt == DatasetOf(scatterChart, name).data[q]
                                      IN  pt.label = m[e].key /\ pt.y = m[e].val
                    /\ LET pts == DatasetOf(scatterChart, name).data
                       IN  /\ Len(pts) = Len(m)
                           /\ \A q \in 1..Len(pts) : HasKey(m, pts[q].label)
                           /\ \A q, r \in 1..Len(pts) :
                                  q # r => pts[q].label # pts[r].label

\* A project with a lag of -17 for a version of the catalog was rendered and
\* both series show -17 for it.
C15_Witness ==
    /\ Rendered
    /\ \E i \in 1..Len(Filtered) :
           LET m == SelectedLag(Filtered[i])
           IN  \E e \in 1..Len(m) :
                   /\ m[e].val = Num(-17)
                   /\ \E k \in 1..Len(barChart.labels) :
                          /\ barChart.labels[k] = m[e].key
                          /\ DatasetOf(barChart, Filtered[i].name).data[k] = Num(-17)
                   /\ \E q \in 1..Len(DatasetOf(scatterChart, Filtered[i].name).data) :
                          DatasetOf(scatterChart, Filtered[i].name).data[q].y = Num(-17)

\* C20: the labels of the bar chart are the versions of the catalog, each
\* once; a project with lag data under the selected mode has one series, with
\* one entry per label: the project's lag for the label's version, or 0 when
\* its mapping has no such version; a project without lag data has no series.
C20_BarAlignedAndZeroFilled ==
    Rendered =>
        /\ Len(barChart.labels) = Len(spec_versions)
        /\ \A c \in 1..Len(spec_versions) :
               \E k \in 1..Len(barChart.labels) : barChart.labels[k] = spec_versions[c].key
        /\ Len(barChart.datasets) = Len(WithLag(Filtered, displayType))
        /\ \A i \in 1..Len(Filtered) :
               LET m == SelectedLag(Filtered[i])
                   name == Filtered[i].name
               IN  IF Len(m) = 0 THEN ~HasDataset(barChart, name)
                   ELSE /\ HasDataset(barChart, name)
                        /\ Len(DatasetOf(barChart, name).data) = Len(barChart.labels)
                        /\ \A k \in 1..Len(barChart.labels) :
                               DatasetOf(barChart, name).data[k] =
                                   IF HasKey(m, barChart.labels[k])
                                   THEN Get(m, barChart.labels[k])
                                   ELSE Num(0)

\* Two projects were rendered over a catalog of two versions: one has no lag
\* data and no series, the other a series with its lag for one version and a
\* 0 filled in for the version it has no lag for.
C20_Witness ==
    /\ Rendered
    /\ Len(barChart.labels) = 2
    /\ Len(Filtered) = 2
    /\ Len(barChart.datasets) = 1
    /\ \E i \in 1..2 :
           LET m == SelectedLag(Filtered[i])
           IN  /\ Len(m) > 0
               /\ \E k, z \in 1..2 :
                      /\ HasKey(m, barChart.labels[k])
                      /\ Get(m, barChart.labels[k]) = Num(5)
                      /\ barChart.datasets[1].data[k] = Num(5)
                      /\ ~HasKey(m, barChart.labels[z])
                      /\ barChart.datasets[1].data[z] = Num(0)

-----------------------------------------------------------------------------
(* render(): every call reads the controls, starts a fetch of data.json and *)
(* leaves; the callback runs when the response arrives, with the control    *)
(* values its call read.  Nothing orders or cancels the fetches.            *)

\* Most calls of render() in a modelled session, the one of build() included.
MaxRequests == 3

\* The data.json of the modelled session: a stable and a beta project.
FetchProject(name, maturity, day, all, after) ==
    [name |-> name, maturity |-> maturity, initial_commit_date |-> day,
     last_commit_date |-> Num(day + 2), forked_from |-> "", forked_date |-> Undefined,
     lag_all |-> all, lag_after_commit |-> <<>>, lag_after_release |-> after,
     version_dates |-> <<[key |-> <<"v", "1", ".", "1">>,
                          val |-> <<<<DateString(day), Null>>>>]>>]
FetchData ==
    <<FetchProject("a", "stable", 1,
          <<[key |-> <<"v", "1", ".", "1">>, val |-> Num(-17)]>>,
          <<[key |-> <<"v", "1", ".", "1">>, val |-> Num(5)]>>),
      FetchProject("b", "beta", 2,
          <<[key |-> <<"v", "1", ".", "1">>, val |-> Num(5)]>>, <<>>)>>

\* render() up to the fetch: it reads the checkboxes and the select as they
\* are now and sends the request.
StartFetch(allowed, dt) ==
    /\ requests < MaxRequests
    /\ requests' = requests + 1
    /\ inflight' = inflight \cup
           {[id |-> requests + 1, allowedMaturities |-> allowed, displayType |-> dt]}

\* onclick of a maturity checkbox: the box changes, then render().
ClickMaturity(m) ==
    /\ allowedMaturities' =
           IF m \in allowedMaturities
           THEN allowedMaturities \ {m} ELSE allowedMaturities \cup {m}
    /\ StartFetch(allowedMaturities', displayType)
    /\ UNCHANGED <<phase, versionVars, engine, page, tz, homeserver_versions>>
    /\ UNCHANGED <<chartVars, lagVars, timelineVars, shown>>

\* onchange of the display-type select: the value changes, then render().
ChangeDisplayType(dt) ==
    /\ dt # displayType
    /\ displayType' = dt
    /\ StartFetch(allowedMaturities, dt)
    /\ UNCHANGED <<phase, versionVars, inputVars, chartVars, timelineVars, shown>>
    /\ UNCHANGED <<spec_versions, barChart, scatterChart>>

\* The callback of one fetch: the filter with the allowedMaturities of its
\* call, then renderData(data, displayType) with the displayType of its call.
Respond(r) ==
    /\ r \in inflight
    /\ inflight' = inflight \ {r}
    /\ phase' = "output"
    /\ shown' = r
    /\ LET hv == FilterByMaturity(homeserver_versions, r.allowedMaturities)
           specVersions == SortedSpecVersions(spec_versions, engine)
           fam == SortByFamily(hv, page, engine)
       IN  /\ barChart' = [labels |-> specVersions,
                           datasets |-> BarDatasets(hv, r.displayType, specVersions)]
           /\ scatterChart' =
                  [datasets |-> ScatterDatasets(hv, r.displayType, spec_versions)]
           /\ timeline' = [labels |-> specVersions,
                           datasets |-> FlatDatasets(hv, now).val]
           /\ IF fam.exc # "none"
              THEN status' = fam.exc /\ UNCHANGED <<projectsByFamily, history>>
              ELSE /\ status' = "ok"
                   /\ projectsByFamily' = [i \in 1..Len(fam.val) |-> fam.val[i].name]
                   /\ history' = HistoryDataset(fam.val)
    /\ UNCHANGED <<versionVars, inputVars, spec_versions, displayType>>
    /\ UNCHANGED <<activity, now, requests>>

\* The page after build(): the default controls (index.html), and the fetch of
\* build()'s own render() under way.
InitFetch ==
    /\ phase = "input"
    /\ NoVersions
    /\ NoCharts
    /\ engine \in Engines
    /\ page = "index"
    /\ tz = 0
    /\ homeserver_versions = FetchData
    /\ allowedMaturities = Maturities
    /\ displayType = "after_release"
    /\ spec_versions = <<[key |-> <<"v", "1", ".", "1">>, lag |-> Num(1)]>>
    /\ barChart = NoChart
    /\ scatterChart = NoChart
    /\ now = DateObject(9)
    /\ timeline = <<>>
    /\ requests = 1
    /\ inflight = {[id |-> 1, allowedMaturities |-> Maturities,
                    displayType |-> "after_release"]}
    /\ shown = [id |-> 0, allowedMaturities |-> {}, displayType |-> "none"]

NextFetch ==
    \/ \E m \in Maturities : ClickMaturity(m)
    \/ \E dt \in DisplayTypes : ChangeDisplayType(dt)
    \/ \E r \in inflight : Respond(r)

SpecFetch == InitFetch /\ [][NextFetch]_vars

\* C16: once every fetch has completed, the charts show the data derived from
\* the controls as the most recent change left them: the last response applied
\* is the one of the last call of render().
C16_LastChangeWins ==
    (inflight = {} /\ Rendered) =>
        /\ shown.id = requests
        /\ shown.allowedMaturities = allowedMaturities
        /\ shown.displayType = displayType
        /\ barChart.datasets =
               BarDatasets(FilterByMaturity(homeserver_versions, allowedMaturities),
                           displayType, barChart.labels)
        /\ projectsByFamily =
               [i \in 1..Len(Filtered) |->
                   SortByFamily(Filtered, page, engine).val[i].name]

-----------------------------------------------------------------------------
(* The family tree with a fork of a fork: c forked from b, b forked from a, *)
(* and an unrelated project d, on the three pages that build the tree.      *)

\* The chain inputs take their initial_commit_date from days 1..MaxChainDay.
MaxChainDay == 3
ChainNames == {"a", "b", "c", "d"}
\* forked_from of the chain: c from b, b from a; a and d are origins.
ChainParent(name) == IF name = "c" THEN "b" ELSE IF name = "b" THEN "a" ELSE ""

InitChain ==
    /\ phase = "input"
    /\ NoVersions
    /\ NoCharts
    /\ NoLag
    /\ NoTimeline
    /\ NoFetch
    /\ engine \in Engines
    /\ page \in {"index", "timeline", "part_000"}
    /\ tz = 0
    /\ allowedMaturities = Maturities
    /\ \E ns \in [1..4 -> ChainNames], d \in [ChainNames -> 1..MaxChainDay] :
           /\ \A i, j \in 1..4 : i # j => ns[i] # ns[j]
           /\ homeserver_versions =
                  [i \in 1..4 |->
                      FamilyProject(ns[i], "stable", d[ns[i]], ChainParent(ns[i]))]

SpecChain == InitChain /\ [][Render]_vars

\* The initial_commit_date of a project of the mapping.
StartOf(name) == GetProject(Filtered, name).initial_commit_date

\* C17: the family of the fork of a fork c is that of its root ancestor a: c
\* is on the side of the unrelated project d that a's initial_commit_date
\* puts it, and the rows of a, b and c are contiguous, on every page.
C17_ForkOfForkInRootFamily ==
    (Rendered /\ status = "ok") =>
        /\ StartOf("a") < StartOf("d") => RowOf("c") < RowOf("d")
        /\ StartOf("a") > StartOf("d") => RowOf("c") > RowOf("d")
        /\ RowOf("d") \in {0, 3}

-----------------------------------------------------------------------------
(* The activity sweep: the order of the events (checked under SpecSweep). *)

\* The dates of a series never go back.
DatesAscending(series) ==
    \A i, j \in 1..Len(series) : i < j => ~JsLess(series[j].x, series[i].x)

\* The same projects in every key order.
KeyOrders(hv) ==
    {[i \in 1..Len(hv) |-> hv[f[i]]] :
        f \in {g \in [1..Len(hv) -> 1..Len(hv)] :
                  \A i, j \in 1..Len(hv) : i # j => g[i] # g[j]}}

\* C18: the dates along the Total series and along the Active series are
\* non-decreasing, and the two series are the same for every key order of the
\* same projects.
C18_EventsInDateOrder ==
    (Rendered /\ status = "ok") =>
        /\ DatesAscending(activity.total)
        /\ DatesAscending(activity.active)
        /\ \A other \in KeyOrders(Filtered) :
               ActivitySweep(other, engine, tz) = NoThrow(activity)

-----------------------------------------------------------------------------
(* The version timelines of index.js: the order of the tuples (checked      *)
(* under SpecTimeline).                                                     *)

\* The number of intervals of the first e keys of a mapping, in key order.
RECURSIVE IntervalsBefore(_, _, _)
IntervalsBefore(m, keys, e) ==
    IF e = 0 THEN 0
    ELSE Len(Get(m, keys[e])) + IntervalsBefore(m, keys, e - 1)

\* C19: in every series of index.js the tuples of the e-th key of the mapping
\* (in the key order of the mapping, as Object.keys gives it) come after all
\* tuples of the keys before it, in the order of the version's interval list;
\* each has its version and its interval's start, and the interval's own end
\* when the interval has one.
C19_TuplesInKeyThenIntervalOrder ==
    (Rendered /\ page = "index") =>
        \A i \in 1..Len(Filtered) :
            LET m == Filtered[i].version_dates
                keys == ObjectKeys(MapKeys(m))
            IN  Len(m) > 0 =>
                    /\ HasDataset(timeline, Filtered[i].name)
                    /\ \A e \in 1..Len(keys) :
                           \A j \in 1..Len(Get(m, keys[e])) :
                               LET q == IntervalsBefore(m, keys, e - 1) + j
                                   tuple == DatasetOf(timeline, Filtered[i].name).data[q]
                                   interval == Get(m, keys[e])[j]
                               IN  /\ q <= Len(DatasetOf(timeline, Filtered[i].name).data)
                                   /\ tuple.y = keys[e]
                                   /\ tuple.x.start = interval[1]
                                   /\ interval[2] # Null => tuple.x.end = interval[2]

\* A project with two versions was rendered by index.js: the first version in
\* key order has two intervals, the first of them with an end, and the series
\* has the three or more tuples in that order.
C19_Witness ==
    /\ Rendered
    /\ page = "index"
    /\ Len(Filtered) = 1
    /\ LET m == Filtered[1].version_dates
           keys == ObjectKeys(MapKeys(m))
       IN  /\ Len(keys) = 2
           /\ keys # MapKeys(m)
           /\ Len(Get(m, keys[1])) = 2
           /\ Len(Get(m, keys[2])) >= 1
           /\ Get(m, keys[1])[1][2] = DateString(2)
           /\ Len(timeline.datasets) = 1
           /\ timeline.datasets[1].data[1] =
                  [x |-> Pair(DateString(1), DateString(2)), y |-> keys[1]]
           /\ timeline.datasets[1].data[3].y = keys[2]

-----------------------------------------------------------------------------
(* The activity sweep: the cutoff and the events (C21 checked under         *)
(* SpecSweep, C22 under SpecActive).                                       *)

\* The instants of the dates the filtered projects carry.
InputInstants ==
    {DayInstant(Filtered[i].initial_commit_date) : i \in 1..Len(Filtered)}
        \cup {DayInstant(d) : d \in EventDays}

\* The points of a series that carry the instant x.
PointsAt(series, x) == {k \in 1..Len(series) : series[k].x = x}

\* C21: every point of the Total and of the Active series is dated with the
\* initial_commit_date or the last_commit_date of some input project, and
\* every project that starts on the latest date of the input has its Total
\* point at that date (not 60 days before it).
C21_CutoffLeavesEventsAlone ==
    (Rendered /\ status = "ok") =>
        /\ \A k \in 1..Len(activity.total) : activity.total[k].x \in InputInstants
        /\ \A k \in 1..Len(activity.active) : activity.active[k].x \in InputInstants
        /\ Cardinality(PointsAt(activity.total, DayInstant(LastObservedDay)))
               = Cardinality({i \in 1..Len(Filtered) :
                                 Filtered[i].initial_commit_date = LastObservedDay})

\* No project's last_commit_date lies before its initial_commit_date (a project
\* without last_commit_date has no end to compare).
StartsBeforeEnds ==
    \A i \in 1..Len(Filtered) :
        IsNum(Filtered[i].last_commit_date) =>
            Filtered[i].initial_commit_date <= Filtered[i].last_commit_date.v

NeverNegative(series) == \A k \in 1..Len(series) : series[k].y >= 0

\* C22: when every project has initial_commit_date <= last_commit_date, no
\* point of the Active series is negative, in the key order of the input and
\* in every other key order of the same projects.
C22_ActiveNeverNegative ==
    (Rendered /\ status = "ok" /\ StartsBeforeEnds) =>
        /\ NeverNegative(activity.active)
        /\ \A other \in KeyOrders(Filtered) :
               NeverNegative(ActivitySweep(other, engine, tz).val.active)

\* Two or more projects, each ending no earlier than it starts, swept in an
\* order that is not the order of the dates, with the count back at 0 when a
\* project ends.
C22_Witness ==
    /\ Rendered
    /\ status = "ok"
    /\ StartsBeforeEnds
    /\ Len(Filtered) >= 2
    /\ ~DatesAscending(activity.active)
    /\ \E k \in EndPoints : activity.active[k].y = 0

====
